---- MODULE Spec2Model ----
(***************************************************************************)
(* Model of go-test-csv-generator (src/main.go).                           *)
(*                                                                         *)
(* Strings are sequences of one-character strings, so that strings.Split,  *)
(* strings.Join, strings.ToLower, fmt.Sprintf and strconv.Itoa are         *)
(* computed character by character.  The fake-value provider (gofakeit)    *)
(* is a seeded stream: every draw is a function of the stream state and    *)
(* advances it.                                                            *)
(***************************************************************************)
EXTENDS Integers, Sequences, FiniteSets, TLC

(* ------------------------------ bounds --------------------------------- *)

\* Largest -rows value tried (the smallest is -1).
MaxRows == 2

\* A -fields string has at most MaxFields comma-separated tokens.
MaxFields == 3

\* -seed ranges over 0..MaxSeed.
MaxSeed == 1

\* Number of states of the provider's random stream.
RngMod == 2

\* Records the csv.Writer's buffer holds before it writes to the file
\* (0: every record goes straight to the file).
BufCap == 0

(* ------------------------------ strings -------------------------------- *)

sName       == <<"n","a","m","e">>
sAge        == <<"a","g","e">>
sEmail      == <<"e","m","a","i","l">>
sFirstName  == <<"f","i","r","s","t","N","a","m","e">>
sLastName   == <<"l","a","s","t","N","a","m","e">>
sMiddleName == <<"m","i","d","d","l","e","N","a","m","e">>
sCity       == <<"c","i","t","y">>
sJobTitle   == <<"j","o","b","T","i","t","l","e">>

\* The tokens -fields strings are built from: field names, text that is
\* no field name, and the empty token.
Tokens == { sName, sAge, sEmail, sFirstName, sLastName, <<"x">>, <<>> }

\* -filename values.
Filenames == { <<>>, <<"o",".","c","s","v">> }

\* The token lists of length 1..n.
RECURSIVE TokenLists(_)
TokenLists(n) ==
    IF n = 1 THEN { << t >> : t \in Tokens }
    ELSE LET shorter == TokenLists(n - 1)
         IN  shorter \cup { Append(l, t) : l \in shorter, t \in Tokens }

\* strings.ToLower on one character.
LowerChar(c) ==
    CASE c = "A" -> "a" [] c = "B" -> "b" [] c = "C" -> "c" [] c = "D" -> "d"
      [] c = "E" -> "e" [] c = "F" -> "f" [] c = "G" -> "g" [] c = "H" -> "h"
      [] c = "I" -> "i" [] c = "J" -> "j" [] c = "K" -> "k" [] c = "L" -> "l"
      [] c = "M" -> "m" [] c = "N" -> "n" [] c = "O" -> "o" [] c = "P" -> "p"
      [] c = "Q" -> "q" [] c = "R" -> "r" [] c = "S" -> "s" [] c = "T" -> "t"
      [] c = "U" -> "u" [] c = "V" -> "v" [] c = "W" -> "w" [] c = "X" -> "x"
      [] c = "Y" -> "y" [] c = "Z" -> "z" [] OTHER -> c

\* strings.ToLower
ToLower(s) == [k \in 1..Len(s) |-> LowerChar(s[k])]

\* strings.Split(s, ","): scans s, closing a token at every comma; the
\* empty string gives one empty token.
RECURSIVE SplitLoop(_, _, _, _)
SplitLoop(s, k, cur, acc) ==
    IF k > Len(s) THEN Append(acc, cur)
    ELSE IF s[k] = "," THEN SplitLoop(s, k + 1, <<>>, Append(acc, cur))
    ELSE SplitLoop(s, k + 1, Append(cur, s[k]), acc)

\* A Split that keeps only the first occurrence of a token.
RECURSIVE DropRepeats(_)
DropRepeats(list) ==
    IF list = <<>> THEN <<>>
    ELSE LET front == DropRepeats(SubSeq(list, 1, Len(list) - 1))
             last  == list[Len(list)]
         IN  IF \E k \in 1 .. Len(front) : front[k] = last
             THEN front ELSE Append(front, last)

Split_NoRepeats(s) == DropRepeats(SplitLoop(s, 1, <<>>, <<>>))

Split(s) == SplitLoop(s, 1, <<>>, <<>>)

\* strings.Join(list, sep)
RECURSIVE Join(_, _)
Join(list, sep) ==
    IF list = <<>> THEN <<>>
    ELSE IF Len(list) = 1 THEN list[1]
    ELSE list[1] \o sep \o Join(Tail(list), sep)

\* -fields values: up to MaxFields tokens with commas between them (one
\* empty token is the empty string).
FieldStrings == { Join(l, <<",">>) : l \in TokenLists(MaxFields) }

Digits == <<"0","1","2","3","4","5","6","7","8","9">>

\* The decimal digits of n >= 0.
RECURSIVE FormatDigits(_)
FormatDigits(n) ==
    IF n < 10 THEN <<Digits[n + 1]>>
    ELSE FormatDigits(n \div 10) \o <<Digits[(n % 10) + 1]>>

\* strconv.Itoa, and fmt's %d
Itoa(n) == IF n < 0 THEN <<"-">> \o FormatDigits(0 - n) ELSE FormatDigits(n)

(* ------------------------- fake-value provider ------------------------- *)

FirstNames  == << <<"Z","i","o","n">>, <<"R","a","n","d","y">>, <<"A","l">> >>
LastNames   == << <<"B","r","a","k","u","s">>, <<"O","z">> >>
DomainNames == << <<"p",".","b","i","z">>, <<"q",".","i","o">> >>
MiddleNames == << <<"L","e","e">>, <<"M","a","e">> >>
Cities      == << <<"I","r","v","i","n","g">>, <<"R","o","m","e">> >>
JobTitles   == << <<"A","g","e","n","t">>, <<"C","h","i","e","f">> >>

\* The stream state after one draw.
NextRng(r) == (r + 1) % RngMod

\* One draw from a word list.
Pick(list, r) == list[(r % Len(list)) + 1]

\* gofakeit.Number(min, max): an integer in min..max.
Number(min, max, r) == min + ((r * 37 + 5) % (max - min + 1))

\* A Seed that never fixes the stream state.
SeedStates_Unseeded(s) == 0 .. (RngMod - 1)

\* gofakeit.Seed: a non-zero seed fixes the stream state; seed 0 asks the
\* provider for randomized output, so any stream state may result.
SeedStates(s) == IF s = 0 THEN 0 .. (RngMod - 1) ELSE { s % RngMod }

(* --------------------------- field registry ---------------------------- *)

validFields ==
    { sName, sAge, sEmail, sFirstName, sLastName, sMiddleName, sCity, sJobTitle }

MinAge == 18
MaxAge == 99

\* A generators map that lacks the lastName entry.
generatorKeys_NoLastName ==
    { sName, sAge, sEmail, sFirstName, sMiddleName, sCity, sJobTitle }

\* The keys of the generators map.
generatorKeys ==
    { sName, sAge, sEmail, sFirstName, sLastName, sMiddleName, sCity, sJobTitle }

\* generators in which the name cell is drawn anew instead of read from
\* the bundle.
generators_FreshName(field, fields, r) ==
    CASE field = sName       -> [cell |-> Pick(FirstNames, r) \o <<" ">>
                                            \o Pick(LastNames, NextRng(r)),
                                 rng |-> NextRng(NextRng(r))]
      [] field = sAge        -> [cell |-> Itoa(Number(MinAge, MaxAge, r)),
                                 rng |-> NextRng(r)]
      [] field = sEmail      -> [cell |-> fields.Email, rng |-> r]
      [] field = sFirstName  -> [cell |-> fields.FirstName, rng |-> r]
      [] field = sLastName   -> [cell |-> fields.LastName, rng |-> r]
      [] field = sMiddleName -> [cell |-> Pick(MiddleNames, r), rng |-> NextRng(r)]
      [] field = sCity       -> [cell |-> Pick(Cities, r), rng |-> NextRng(r)]
      [] field = sJobTitle   -> [cell |-> Pick(JobTitles, r), rng |-> NextRng(r)]

\* generators[field](fields) with the provider stream at r: the cell
\* returned and the stream state afterwards.
generators(field, fields, r) ==
    CASE field = sName       -> [cell |-> fields.Name, rng |-> r]
      [] field = sAge        -> [cell |-> Itoa(Number(MinAge, MaxAge, r)),
                                 rng |-> NextRng(r)]
      [] field = sEmail      -> [cell |-> fields.Email, rng |-> r]
      [] field = sFirstName  -> [cell |-> fields.FirstName, rng |-> r]
      [] field = sLastName   -> [cell |-> fields.LastName, rng |-> r]
      [] field = sMiddleName -> [cell |-> Pick(MiddleNames, r), rng |-> NextRng(r)]
      [] field = sCity       -> [cell |-> Pick(Cities, r), rng |-> NextRng(r)]
      [] field = sJobTitle   -> [cell |-> Pick(JobTitles, r), rng |-> NextRng(r)]

(* ------------------------------ functions ------------------------------ *)

NoError == [kind |-> "nil", detail |-> <<>>]

\* validateFlags with the rows check off by one: 0 rows pass.
validateFlags_ZeroRowsPass(r, f, fn) ==
    IF r < 0 THEN [kind |-> "invalid number of rows", detail |-> Itoa(r)]
    ELSE IF f = <<>> THEN [kind |-> "fields cannot be empty", detail |-> <<>>]
    ELSE IF fn = <<>> THEN [kind |-> "filename cannot be empty", detail |-> <<>>]
    ELSE NoError

\* validateFlags: the first failing check decides the error.
validateFlags(r, f, fn) ==
    IF r <= 0 THEN [kind |-> "invalid number of rows", detail |-> Itoa(r)]
    ELSE IF f = <<>> THEN [kind |-> "fields cannot be empty", detail |-> <<>>]
    ELSE IF fn = <<>> THEN [kind |-> "filename cannot be empty", detail |-> <<>>]
    ELSE NoError

\* The validation loop leaving at the first invalid token.
RECURSIVE validateLoop_FirstOnly(_, _, _)
validateLoop_FirstOnly(fieldSlice, k, invalid) ==
    IF k > Len(fieldSlice) THEN invalid
    ELSE IF fieldSlice[k] \notin validFields
         THEN Append(invalid, fieldSlice[k])
         ELSE validateLoop_FirstOnly(fieldSlice, k + 1, invalid)

\* The loop of validateSelectedFields over fieldSlice[k..].
RECURSIVE validateLoop(_, _, _)
validateLoop(fieldSlice, k, invalid) ==
    IF k > Len(fieldSlice) THEN invalid
    ELSE IF fieldSlice[k] \notin validFields
         THEN validateLoop(fieldSlice, k + 1, Append(invalid, fieldSlice[k]))
         ELSE validateLoop(fieldSlice, k + 1, invalid)

validateSelectedFields(f) == validateLoop(Split(f), 1, <<>>)

\* generateBaseFields with the provider stream at r: three draws, then the
\* two Sprintf calls.
generateBaseFields(r) ==
    LET firstName   == Pick(FirstNames, r)
        r1          == NextRng(r)
        lastName    == Pick(LastNames, r1)
        r2          == NextRng(r1)
        emailDomain == Pick(DomainNames, r2)
        r3          == NextRng(r2)
        name        == firstName \o <<" ">> \o lastName
        email       == ToLower(firstName) \o <<".">> \o ToLower(lastName)
                         \o <<"@">> \o emailDomain
    IN  [ fields |-> [ Name |-> name, FirstName |-> firstName,
                       LastName |-> lastName, Email |-> email ],
          rng |-> r3 ]

NoBaseFields == [Name |-> <<>>, FirstName |-> <<>>, LastName |-> <<>>, Email |-> <<>>]

(* -------------------------------- state -------------------------------- *)

VARIABLES
    rows, fields, filename, seed,   \* the parsed flags
    pc,                             \* position in main / generateCsvData
    rng,                            \* the provider's stream state
    dirExists,                      \* the output directory exists
    file,                           \* records on disk in output/<filename>
    buf,                            \* records held by the csv.Writer
    writerErr,                      \* the csv.Writer's sticky error
    fieldSlice, i, row, baseFields, \* locals of generateCsvData
    invalidFields,                  \* result of validateSelectedFields
    genErr,                         \* what generateCsvData returned
    fatal,                          \* message of log.Fatalf, if any
    stdout,                         \* lines printed
    exitCode,                       \* process exit status (-1: running)
    events,                         \* history: calls made in this run
    bundles,                        \* history: bundles derived in this run
    written,                        \* history: records Write accepted
    calls,                          \* history: generator calls of this run
    run, prevFile                   \* first or second run, the first run's file

vars == << rows, fields, filename, seed, pc, rng, dirExists, file, buf,
           writerErr, fieldSlice, i, row, baseFields, invalidFields, genErr,
           fatal, stdout, exitCode, events, bundles, written, calls, run,
           prevFile >>

request == << rows, fields, filename, seed >>
locals  == << fieldSlice, i, row, baseFields >>
disk    == << dirExists, file >>
writer  == << buf, writerErr >>

NotSet == [kind |-> "unset", detail |-> <<>>]
NoFatal == [prefix |-> "", detail |-> <<>>]

\* The state of a process that has just parsed its flags.
Fresh ==
    /\ pc = "validateFlags"
    /\ rng = 0
    /\ buf = <<>>
    /\ writerErr = FALSE
    /\ fieldSlice = <<>>
    /\ i = 0
    /\ row = <<>>
    /\ baseFields = NoBaseFields
    /\ invalidFields = <<>>
    /\ genErr = NotSet
    /\ fatal = NoFatal
    /\ stdout = <<>>
    /\ exitCode = -1
    /\ events = <<>>
    /\ bundles = <<>>
    /\ written = <<>>
    /\ calls = <<>>

Init ==
    /\ rows \in (0 - 1) .. MaxRows
    /\ fields \in FieldStrings
    /\ filename \in Filenames
    /\ seed \in 0 .. MaxSeed
    /\ dirExists = FALSE
    /\ file = <<>>
    /\ run = 1
    /\ prevFile = <<>>
    /\ Fresh

(* ------------------------------- actions ------------------------------- *)

\* log.Fatalf: the message, then exit status 1.
Fatalf(prefix, detail) ==
    /\ fatal' = [prefix |-> prefix, detail |-> detail]
    /\ exitCode' = 1
    /\ pc' = "exited"

\* main, lines 137-139
ValidateFlags ==
    /\ pc = "validateFlags"
    /\ events' = Append(events, "validateFlags")
    /\ LET err == validateFlags(rows, fields, filename)
       IN  IF err # NoError
           THEN Fatalf("Invalid flags: " \o err.kind, err.detail)
           ELSE /\ pc' = "validateSelectedFields"
                /\ UNCHANGED << fatal, exitCode >>
    /\ UNCHANGED << request, rng, disk, writer, locals, invalidFields, genErr,
                    stdout, bundles, written, run, prevFile,
                    calls >>

\* main printing the invalid fields and going on instead of exiting.
ValidateSelectedFields_NoExit ==
    /\ pc = "validateSelectedFields"
    /\ events' = Append(events, "validateSelectedFields")
    /\ invalidFields' = validateSelectedFields(fields)
    /\ fatal' = IF Len(invalidFields') > 0
                THEN [prefix |-> "Unable to generate CSV data. Invalid fields selected: ",
                      detail |-> Join(invalidFields', <<",", " ">>)]
                ELSE fatal
    /\ pc' = "print"
    /\ UNCHANGED << request, rng, disk, writer, locals, genErr, stdout,
                    exitCode, bundles, written, calls, run, prevFile >>

\* main, lines 141-144
ValidateSelectedFields ==
    /\ pc = "validateSelectedFields"
    /\ events' = Append(events, "validateSelectedFields")
    /\ invalidFields' = validateSelectedFields(fields)
    /\ IF Len(invalidFields') > 0
       THEN Fatalf("Unable to generate CSV data. Invalid fields selected: ",
                   Join(invalidFields', <<",", " ">>))
       ELSE /\ pc' = "print"
            /\ UNCHANGED << fatal, exitCode >>
    /\ UNCHANGED << request, rng, disk, writer, locals, genErr, stdout,
                    bundles, written, run, prevFile,
                    calls >>

\* main, lines 146-149
PrintRequest ==
    /\ pc = "print"
    /\ stdout' = stdout \o << "Rows", "Fields", "Filename", "Generating CSV file..." >>
    /\ pc' = "seed"
    /\ UNCHANGED << request, rng, disk, writer, locals, invalidFields, genErr,
                    fatal, exitCode, events, bundles, written, run, prevFile,
                    calls >>

\* main, line 151
Seed ==
    /\ pc = "seed"
    /\ rng' \in SeedStates(seed)
    /\ events' = Append(events, "Seed")
    /\ pc' = "MkdirAll"
    /\ UNCHANGED << request, disk, writer, locals, invalidFields, genErr,
                    fatal, stdout, exitCode, bundles, written, run, prevFile,
                    calls >>

\* MkdirAll whose failure is noted but does not return.
MkdirAll_NoReturn ==
    /\ pc = "MkdirAll"
    /\ fieldSlice' = Split(fields)
    /\ events' = Append(events, "MkdirAll")
    /\ \E ok \in BOOLEAN :
          IF ok
          THEN /\ dirExists' = TRUE
               /\ UNCHANGED genErr
          ELSE /\ genErr' = [kind |-> "failed to create directory", detail |-> <<>>]
               /\ UNCHANGED dirExists
    /\ pc' = "Create"
    /\ UNCHANGED << request, rng, file, writer, i, row, baseFields,
                    invalidFields, fatal, stdout, exitCode, bundles, written,
                    calls, run, prevFile >>

\* generateCsvData, lines 92-96; ok is whether os.MkdirAll succeeds
MkdirAll ==
    /\ pc = "MkdirAll"
    /\ fieldSlice' = Split(fields)
    /\ events' = Append(events, "MkdirAll")
    /\ \E ok \in BOOLEAN :
          IF ok
          THEN /\ dirExists' = TRUE
               /\ pc' = "Create"
               /\ UNCHANGED genErr
          ELSE /\ genErr' = [kind |-> "failed to create directory", detail |-> <<>>]
               /\ pc' = "report"
               /\ UNCHANGED dirExists
    /\ UNCHANGED << request, rng, file, writer, i, row, baseFields,
                    invalidFields, fatal, stdout, exitCode, bundles, written,
                    run, prevFile,
                    calls >>

\* generateCsvData, lines 98-106; os.Create truncates the file
Create ==
    /\ pc = "Create"
    /\ events' = Append(events, "Create")
    /\ \E ok \in BOOLEAN :
          IF ok
          THEN /\ file' = <<>>
               /\ pc' = "WriteHeader"
               /\ UNCHANGED genErr
          ELSE /\ genErr' = [kind |-> "create", detail |-> <<>>]
               /\ pc' = "report"
               /\ UNCHANGED file
    /\ UNCHANGED << request, rng, dirExists, writer, locals, invalidFields,
                    fatal, stdout, exitCode, bundles, written, run, prevFile,
                    calls >>

\* csv.Writer.Write(record): the record goes to the writer's buffer, which
\* holds BufCap records.  A record that does not fit makes the writer write
\* its buffer out to the file first (an unbuffered writer writes the record
\* itself); that can fail, and a failure sticks to the writer.
Write(record, failKind, okPc, okI) ==
    /\ events' = Append(events, "Write")
    /\ IF Len(buf) < BufCap
       THEN /\ buf' = Append(buf, record)
            /\ written' = Append(written, record)
            /\ pc' = okPc
            /\ i' = okI
            /\ UNCHANGED << file, writerErr, genErr >>
       ELSE \E ok \in BOOLEAN :
               IF ok
               THEN /\ file' = IF BufCap = 0 THEN Append(file, record)
                                             ELSE file \o buf
                    /\ buf' = IF BufCap = 0 THEN <<>> ELSE << record >>
                    /\ written' = Append(written, record)
                    /\ pc' = okPc
                    /\ i' = okI
                    /\ UNCHANGED << writerErr, genErr >>
               ELSE /\ writerErr' = TRUE
                    /\ genErr' = [kind |-> failKind, detail |-> <<>>]
                    /\ pc' = "deferred"
                    /\ UNCHANGED << file, buf, written, i >>

\* generateCsvData, lines 108-110
WriteHeader ==
    /\ pc = "WriteHeader"
    /\ Write(fieldSlice, "failed to write header row", "loop", 0)
    /\ UNCHANGED << request, rng, dirExists, fieldSlice, row, baseFields,
                    invalidFields, fatal, stdout, exitCode, bundles, run,
                    prevFile,
                    calls >>

\* The row loop deriving the bundle for the first row only and reading
\* it again for the rows after.
NextRow_SharedBundle ==
    /\ pc = "loop"
    /\ IF i < rows
       THEN LET b == generateBaseFields(rng)
            IN  /\ row' = <<>>
                /\ pc' = "cell"
                /\ UNCHANGED genErr
                /\ IF i = 0
                   THEN /\ baseFields' = b.fields
                        /\ rng' = b.rng
                        /\ bundles' = Append(bundles, b.fields)
                        /\ events' = Append(events, "generateBaseFields")
                   ELSE UNCHANGED << baseFields, rng, bundles, events >>
       ELSE /\ genErr' = NoError
            /\ pc' = "deferred"
            /\ UNCHANGED << row, baseFields, rng, bundles, events >>
    /\ UNCHANGED << request, disk, writer, fieldSlice, i, invalidFields,
                    fatal, stdout, exitCode, written, calls, run, prevFile >>

\* The row loop running once too often (i <= rows).
NextRow_OneTooMany ==
    /\ pc = "loop"
    /\ IF i <= rows
       THEN LET b == generateBaseFields(rng)
            IN  /\ row' = <<>>
                /\ baseFields' = b.fields
                /\ rng' = b.rng
                /\ bundles' = Append(bundles, b.fields)
                /\ events' = Append(events, "generateBaseFields")
                /\ pc' = "cell"
                /\ UNCHANGED genErr
       ELSE /\ genErr' = NoError
            /\ pc' = "deferred"
            /\ UNCHANGED << row, baseFields, rng, bundles, events >>
    /\ UNCHANGED << request, disk, writer, fieldSlice, i, invalidFields,
                    fatal, stdout, exitCode, written, calls, run, prevFile >>

\* generateCsvData, lines 112-114 and 124: the loop test, then a new row
\* and its bundle
NextRow ==
    /\ pc = "loop"
    /\ IF i < rows
       THEN LET b == generateBaseFields(rng)
            IN  /\ row' = <<>>
                /\ baseFields' = b.fields
                /\ rng' = b.rng
                /\ bundles' = Append(bundles, b.fields)
                /\ events' = Append(events, "generateBaseFields")
                /\ pc' = "cell"
                /\ UNCHANGED genErr
       ELSE /\ genErr' = NoError
            /\ pc' = "deferred"
            /\ UNCHANGED << row, baseFields, rng, bundles, events >>
    /\ UNCHANGED << request, disk, writer, fieldSlice, i, invalidFields,
                    fatal, stdout, exitCode, written, run, prevFile,
                    calls >>

\* The inner loop putting each cell in front of the row.
Cell_Prepend ==
    /\ pc = "cell"
    /\ Len(row) < Len(fieldSlice)
    /\ LET field == fieldSlice[Len(row) + 1]
           g     == generators(field, baseFields, rng)
       IN  /\ row' = << g.cell >> \o row
           /\ rng' = g.rng
           /\ events' = Append(events, "generator")
           /\ calls' = Append(calls, [row |-> i, field |-> field, cell |-> g.cell])
    /\ UNCHANGED << request, disk, writer, fieldSlice, i, baseFields,
                    invalidFields, genErr, fatal, stdout, bundles, written,
                    run, prevFile, pc, exitCode >>

\* generateCsvData, lines 115-117: one iteration of the inner loop; a
\* field with no generator is a call of a nil function
Cell ==
    /\ pc = "cell"
    /\ Len(row) < Len(fieldSlice)
    /\ LET field == fieldSlice[Len(row) + 1]
       IN  IF field \in generatorKeys
           THEN LET g == generators(field, baseFields, rng)
                IN  /\ row' = Append(row, g.cell)
                    /\ rng' = g.rng
                    /\ events' = Append(events, "generator")
                    /\ calls' = Append(calls, [row |-> i, field |-> field,
                                                cell |-> g.cell])
                    /\ UNCHANGED << pc, exitCode >>
           ELSE /\ pc' = "exited"
                /\ exitCode' = 2
                /\ events' = Append(events, "panic")
                /\ UNCHANGED << row, rng, calls >>
    /\ UNCHANGED << request, disk, writer, fieldSlice, i, baseFields,
                    invalidFields, genErr, fatal, stdout, bundles, written,
                    run, prevFile >>

\* generateCsvData, lines 119-121
WriteRow ==
    /\ pc = "cell"
    /\ Len(row) = Len(fieldSlice)
    /\ Write(row, "failed to write row", "loop", i + 1)
    /\ UNCHANGED << request, rng, dirExists, fieldSlice, row, baseFields,
                    invalidFields, fatal, stdout, exitCode, bundles, run,
                    prevFile,
                    calls >>

\* The deferred calls of generateCsvData, lines 103 and 106: writer.Flush,
\* whose outcome nobody reads, then file.Close
Deferred ==
    /\ pc = "deferred"
    /\ events' = Append(events, "Flush")
    /\ IF writerErr
       THEN UNCHANGED << file, buf, writerErr >>
       ELSE \E ok \in BOOLEAN :
               IF ok
               THEN /\ file' = file \o buf
                    /\ buf' = <<>>
                    /\ UNCHANGED writerErr
               ELSE /\ writerErr' = TRUE
                    /\ UNCHANGED << file, buf >>
    /\ pc' = "report"
    /\ UNCHANGED << request, rng, dirExists, locals, invalidFields, genErr,
                    fatal, stdout, exitCode, bundles, written, run, prevFile,
                    calls >>

\* main, lines 154-159: the value generateCsvData returned is dropped
Report ==
    /\ pc = "report"
    /\ stdout' = Append(stdout, "CSV file generated")
    /\ events' = Append(events, "Report")
    /\ exitCode' = 0
    /\ pc' = "exited"
    /\ UNCHANGED << request, rng, disk, writer, locals, invalidFields, genErr,
                    fatal, bundles, written, run, prevFile,
                    calls >>

\* After a run that wrote its whole output, the same command line is run
\* again; the file system is what the earlier run left.
Rerun ==
    /\ pc = "exited"
    /\ genErr = NoError
    /\ ~writerErr
    /\ run = 1
    /\ run' = 2
    /\ prevFile' = file
    /\ pc' = "validateFlags"
    /\ rng' = 0
    /\ buf' = <<>>
    /\ writerErr' = FALSE
    /\ fieldSlice' = <<>>
    /\ i' = 0
    /\ row' = <<>>
    /\ baseFields' = NoBaseFields
    /\ invalidFields' = <<>>
    /\ genErr' = NotSet
    /\ fatal' = NoFatal
    /\ stdout' = <<>>
    /\ exitCode' = 0 - 1
    /\ events' = <<>>
    /\ bundles' = <<>>
    /\ written' = <<>>
    /\ calls' = <<>>
    /\ UNCHANGED << request, disk >>

Next ==
    \/ ValidateFlags
    \/ ValidateSelectedFields
    \/ PrintRequest
    \/ Seed
    \/ MkdirAll
    \/ Create
    \/ WriteHeader
    \/ NextRow
    \/ Cell
    \/ WriteRow
    \/ Deferred
    \/ Report
    \/ Rerun

Spec == Init /\ [][Next]_vars

(* ------------------------------ properties ----------------------------- *)

\* The data rows Write accepted in this run: everything after the header.
DataRows == IF written = <<>> THEN <<>> ELSE Tail(written)

\* generateCsvData has returned to main.
Returned == genErr # NotSet

\* The text of an e-mail address before its first "@".
LocalPart(e) ==
    IF \E k \in 1 .. Len(e) : e[k] = "@"
    THEN LET at == CHOOSE k \in 1 .. Len(e) :
                      /\ e[k] = "@"
                      /\ \A m \in 1 .. (k - 1) : e[m] # "@"
         IN  SubSeq(e, 1, at - 1)
    ELSE e

\* The cells of r under the column names agree with the bundle b, and with
\* each other.
ReadFromBundle(r, names, b) ==
    /\ \A j \in 1 .. Len(r) :
          j <= Len(names) =>
             /\ names[j] = sName =>
                   r[j] = b.FirstName \o <<" ">> \o b.LastName
             /\ names[j] = sFirstName => r[j] = b.FirstName
             /\ names[j] = sLastName => r[j] = b.LastName
             /\ names[j] = sEmail =>
                   LocalPart(r[j])
                     = ToLower(b.FirstName) \o <<".">> \o ToLower(b.LastName)
    /\ \A j1, j2 \in 1 .. Len(r) :
          (j1 <= Len(names) /\ j2 <= Len(names)) =>
             /\ (names[j1] = sFirstName /\ names[j2] = sLastName) =>
                   \A j3 \in 1 .. Len(r) :
                      j3 <= Len(names) =>
                         /\ names[j3] = sName =>
                               r[j3] = r[j1] \o <<" ">> \o r[j2]
                         /\ names[j3] = sEmail =>
                               LocalPart(r[j3])
                                 = ToLower(r[j1]) \o <<".">> \o ToLower(r[j2])
             /\ (names[j1] = names[j2]
                   /\ names[j1] \in { sName, sFirstName, sLastName, sEmail }) =>
                   r[j1] = r[j2]

\* C1: in every data row, the name, firstName, lastName and email cells
\* (repeated columns included) are read from the one bundle derived for
\* that row: the name cell is firstName, a space, lastName, and the local
\* part of the email cell is lowercase(firstName) "." lowercase(lastName).
\* This covers the rows already written and the row being assembled.
C1_RowReadsOneBundle ==
    /\ \A k \in 1 .. Len(DataRows) :
          /\ k <= Len(bundles)
          /\ ReadFromBundle(DataRows[k], written[1], bundles[k])
    /\ pc = "cell" => ReadFromBundle(row, fieldSlice, baseFields)

\* Two rows written, with different bundles, under name, email, firstName.
C1_Witness ==
    /\ Len(DataRows) = 2
    /\ written[1] = << sName, sEmail, sFirstName >>
    /\ bundles[1] # bundles[2]
    /\ DataRows[1] # DataRows[2]

\* This run ran to the end with every row on disk.
RunComplete ==
    /\ pc = "exited"
    /\ genErr = NoError
    /\ ~writerErr

\* Two complete runs of the same command line are in view: this one and
\* the one whose file the earlier run left.
TwoCompleteRuns ==
    /\ run = 2
    /\ RunComplete
    /\ Len(prevFile) = rows + 1

\* C2 as stated: for every seed, 0 included, two runs with the same seed,
\* rows and field list write the same sequence of header and data rows.
C2_SameOutputEverySeed == TwoCompleteRuns => file = prevFile

\* C2 amended: for every seed other than 0, two runs with the same seed,
\* rows and field list write the same sequence of header and data rows.
C2_SameOutputNonZeroSeed == (TwoCompleteRuns /\ seed # 0) => file = prevFile

\* A second complete run with a non-zero seed, two rows, and a column
\* that draws from the provider.
C2_Witness ==
    /\ TwoCompleteRuns
    /\ seed # 0
    /\ rows = 2
    /\ \E j \in 1 .. Len(fieldSlice) : fieldSlice[j] = sAge
    /\ file[2] # file[3]

\* C3: the first record generateCsvData writes, the header, is the list of
\* comma-separated tokens of the fields string: no token holds a comma and
\* joining the tokens with commas gives the fields string back, so tokens,
\* order, length and repeats are those of the string.
C3_HeaderIsFieldList ==
    written # <<>> =>
       /\ Join(written[1], <<",">>) = fields
       /\ Len(written[1]) >= 1
       /\ \A j \in 1 .. Len(written[1]) :
             \A k \in 1 .. Len(written[1][j]) : written[1][j][k] # ","

\* A header with a repeated column has been written.
C3_Witness ==
    /\ written # <<>>
    /\ written[1] = << sAge, sName, sAge >>

\* C4 as stated: for a valid request in which no write fails, the number of
\* data rows written after the header equals rows.
C4_RowsWrittenUnlessWriteFails ==
    (Returned /\ ~writerErr) => Len(DataRows) = rows

\* C4 amended: for a valid request in which neither the directory creation,
\* nor the file creation, nor any write fails, the number of data rows
\* written after the header equals rows; once the writer is flushed, the
\* file holds the header and those rows.
C4_RowsWrittenUnlessAnyStepFails ==
    /\ (Returned /\ genErr = NoError) => Len(DataRows) = rows
    /\ RunComplete => (Len(file) = rows + 1 /\ file = written)

\* A run of two rows that returned nil and flushed.
C4_Witness ==
    /\ RunComplete
    /\ rows = 2
    /\ Len(file) = 3
    /\ run = 1

\* The text of the ages the age generator can return.
AgeCells == { Itoa(a) : a \in MinAge .. MaxAge }

\* C5: data rows are written in increasing row index order, one complete
\* row after another: the k-th data row is made of the generator calls of
\* loop index k-1, its j-th cell is what the generator of the j-th header
\* token returned, and it has as many cells as the header; an age cell is
\* an integer of 18..99.  The row being assembled is a prefix of the same.
C5_RowsAndCellsInOrder ==
    /\ written # <<>> =>
          LET n == Len(written[1])
          IN  \A k \in 1 .. Len(DataRows) :
                 /\ Len(DataRows[k]) = n
                 /\ Len(calls) >= k * n
                 /\ \A j \in 1 .. n :
                       LET c == calls[(k - 1) * n + j]
                       IN  /\ c.row = k - 1
                           /\ c.field = written[1][j]
                           /\ c.cell = DataRows[k][j]
                           /\ c.field = sAge => c.cell \in AgeCells
    /\ pc = "cell" =>
          /\ Len(row) <= Len(fieldSlice)
          /\ Len(calls) = i * Len(fieldSlice) + Len(row)
          /\ \A j \in 1 .. Len(row) :
                LET c == calls[i * Len(fieldSlice) + j]
                IN  /\ c.row = i
                    /\ c.field = fieldSlice[j]
                    /\ c.cell = row[j]

\* Two different rows have been written under a bundle column and two age
\* columns, whose cells differ within a row.
C5_Witness ==
    /\ Len(DataRows) = 2
    /\ written[1] = << sFirstName, sAge, sAge >>
    /\ DataRows[1] # DataRows[2]
    /\ DataRows[1][2] # DataRows[1][3]

\* The vocabulary C6 names.
Vocabulary ==
    { sName, sAge, sEmail, sFirstName, sLastName, sMiddleName, sCity, sJobTitle }

OutsideVocabulary(t) == t \notin Vocabulary

SelectionValidated ==
    \E k \in 1 .. Len(events) : events[k] = "validateSelectedFields"

FlagsChecked == events # <<>>

\* The conditions of validateFlags the request violates, by their message.
ViolatedChecks ==
    (IF rows <= 0 THEN { "invalid number of rows" } ELSE { })
      \cup (IF fields = <<>> THEN { "fields cannot be empty" } ELSE { })
      \cup (IF filename = <<>> THEN { "filename cannot be empty" } ELSE { })

FlagMessages ==
    { "Invalid flags: invalid number of rows",
      "Invalid flags: fields cannot be empty",
      "Invalid flags: filename cannot be empty" }

\* The first violated condition, in the order rows, fields, filename.
FirstViolatedCheck ==
    IF rows <= 0 THEN "invalid number of rows"
    ELSE IF fields = <<>> THEN "fields cannot be empty"
    ELSE "filename cannot be empty"

\* C7 as stated: validateFlags fails exactly when rows <= 0, fields is empty
\* or filename is empty, and every violated condition is reported, also
\* when several are violated at once.
C7_EveryViolationReported ==
    FlagsChecked =>
       /\ (ViolatedChecks = { }) <=> (fatal.prefix \notin FlagMessages)
       /\ \A c \in ViolatedChecks : fatal.prefix = "Invalid flags: " \o c

\* C7 amended: validateFlags fails exactly when rows <= 0, fields is empty
\* or filename is empty (rows 0 and -1 fail, rows 1 with non-empty fields
\* and filename succeeds); each condition has its own message, and a
\* request that violates several at once is reported for the first one
\* only, in the order rows, fields, filename.
C7_FirstViolationReported ==
    FlagsChecked =>
       /\ (ViolatedChecks = { }) <=> (fatal.prefix \notin FlagMessages)
       /\ ViolatedChecks # { } =>
             /\ fatal.prefix = "Invalid flags: " \o FirstViolatedCheck
             /\ FirstViolatedCheck \in ViolatedChecks
             /\ rows <= 0 => fatal.detail = Itoa(rows)
             /\ exitCode = 1
             /\ pc = "exited"
       /\ (rows = 1 /\ fields # <<>> /\ filename # <<>>) =>
             fatal.prefix \notin FlagMessages
       /\ rows \in { 0, 0 - 1 } =>
             fatal.prefix = "Invalid flags: invalid number of rows"

\* A request with empty fields and empty filename was refused for its
\* fields.
C7_Witness ==
    /\ FlagsChecked
    /\ rows = 1
    /\ ViolatedChecks = { "fields cannot be empty", "filename cannot be empty" }
    /\ fatal.prefix = "Invalid flags: fields cannot be empty"

\* generateCsvData returned an error.
GenerationFailed == genErr.kind \notin { "unset", "nil" }

\* C8: every failure of a run ends in a fatal message and a failing exit;
\* in particular, a run in which generateCsvData returned an error never
\* reaches the line that reports the CSV file as generated.
C8_NoFailureSwallowed ==
    GenerationFailed =>
       /\ \A k \in 1 .. Len(events) : events[k] # "Report"
       /\ pc = "exited" => (exitCode # 0 /\ fatal # NoFatal)

NoGenerationEvents ==
    \A k \in 1 .. Len(events) :
       events[k] \in { "validateFlags", "validateSelectedFields" }

\* The request fails validation.
InvalidRequest ==
    \/ ViolatedChecks # { }
    \/ LET tokens == Split(fields)
       IN  \E k \in 1 .. Len(tokens) : tokens[k] \notin Vocabulary

CountEvents(e) == Cardinality({ k \in 1 .. Len(events) : events[k] = e })

\* The calls made after the last call of kind e.
EventsAfterLast(e) ==
    LET last == CHOOSE k \in 1 .. Len(events) :
                   /\ events[k] = e
                   /\ \A m \in (k + 1) .. Len(events) : events[m] # e
    IN  { events[m] : m \in (last + 1) .. Len(events) }

\* C10: generateCsvData stops at its first failing step and returns that
\* step's error.  After a failed directory or file creation there is no
\* later step: no header, no bundle, no row, and the file is as the run
\* found it.  After a failed header or row write no bundle is derived and
\* no row is written any more; the records written before stay where they
\* are, in the file or in the writer, and the file is not emptied.
C10_StopsAtFirstFailure ==
    /\ genErr.kind = "failed to create directory" =>
          /\ EventsAfterLast("MkdirAll") \subseteq { "Report" }
          /\ CountEvents("Create") = 0
          /\ CountEvents("Write") = 0
          /\ bundles = <<>> /\ written = <<>> /\ calls = <<>>
          /\ file = prevFile
    /\ genErr.kind = "create" =>
          /\ EventsAfterLast("Create") \subseteq { "Report" }
          /\ CountEvents("Write") = 0
          /\ bundles = <<>> /\ written = <<>> /\ calls = <<>>
          /\ file = prevFile
    /\ genErr.kind = "failed to write header row" =>
          /\ EventsAfterLast("Write") \subseteq { "Flush", "Report" }
          /\ CountEvents("Write") = 1
          /\ bundles = <<>> /\ written = <<>> /\ calls = <<>>
          /\ file = <<>>
    /\ genErr.kind = "failed to write row" =>
          /\ EventsAfterLast("Write") \subseteq { "Flush", "Report" }
          /\ i < rows
          /\ CountEvents("Write") = i + 2
          /\ Len(bundles) = i + 1
          /\ Len(written) = i + 1
          /\ Len(calls) = (i + 1) * Len(fieldSlice)
          /\ file \o buf = written
    /\ GenerationFailed => genErr.kind \in
          { "failed to create directory", "create",
            "failed to write header row", "failed to write row" }

\* The write of the second row failed after the header and one row.
C10_Witness ==
    /\ genErr.kind = "failed to write row"
    /\ pc = "exited"
    /\ i = 1
    /\ Len(file) = 2
    /\ rows = 2

\* C11: generateBaseFields is called exactly once per data row, before any
\* cell of that row: a derivation comes right after a Write (of the header
\* or of the row before), a generator call comes after this row's
\* derivation with only generator calls between, and while row i is being
\* assembled i+1 bundles have been derived and the one the cells read is
\* the last.  So no bundle serves two rows, and after a run that returned
\* nil the number of derivations equals rows.
C11_OneBundlePerRow ==
    /\ CountEvents("generateBaseFields") = Len(bundles)
    /\ \A k \in 1 .. Len(events) :
          /\ events[k] = "generateBaseFields" =>
                (k > 1 /\ events[k - 1] = "Write")
          /\ events[k] = "generator" =>
                (k > 1 /\ events[k - 1] \in { "generateBaseFields", "generator" })
          /\ (events[k] = "Write" /\ k > 1 /\ events[k - 1] # "Create") =>
                events[k - 1] \in { "generateBaseFields", "generator" }
    /\ pc = "cell" =>
          /\ Len(bundles) = i + 1
          /\ baseFields = bundles[i + 1]
    /\ pc = "loop" => Len(bundles) = i
    /\ \A k \in 1 .. Len(calls) : calls[k].row + 1 <= Len(bundles)
    /\ Len(DataRows) <= Len(bundles)
    /\ Len(bundles) <= Len(DataRows) + 1
    /\ (Returned /\ genErr = NoError) =>
          /\ Len(bundles) = rows
          /\ CountEvents("generateBaseFields") = rows

\* A run of two rows returned nil after two derivations, which gave
\* different bundles.
C11_Witness ==
    /\ Returned
    /\ genErr = NoError
    /\ rows = 2
    /\ Len(bundles) = 2
    /\ bundles[1] # bundles[2]
    /\ Len(fieldSlice) = 2

\* generateCsvData has been entered.
GenerationReached ==
    \E k \in 1 .. Len(events) : events[k] = "MkdirAll"

\* C12: the validator's vocabulary and the registry's key set are the same
\* set, and in every run that reaches generateCsvData every token of the
\* field list is a key of the registry, so the lookup in the row loop never
\* finds a missing generator: no run ends in the call of a nil function,
\* whatever the fields string (a string with an empty token never gets
\* that far; repeats do, and each has its generator).
C12_EveryTokenHasGenerator ==
    /\ validFields = generatorKeys
    /\ GenerationReached =>
          /\ fieldSlice = Split(fields)
          /\ \A j \in 1 .. Len(fieldSlice) :
                /\ fieldSlice[j] \in generatorKeys
                /\ fieldSlice[j] # <<>>
    /\ \A k \in 1 .. Len(calls) : calls[k].field \in generatorKeys
    /\ \A k \in 1 .. Len(events) : events[k] # "panic"
    /\ exitCode # 2

\* A row with a repeated column has had all its generators looked up.
C12_Witness ==
    /\ GenerationReached
    /\ fieldSlice = << sLastName, sAge, sLastName >>
    /\ Len(calls) = 3
    /\ pc = "cell"

====
